---------------------------- MODULE Spec2Model ----------------------------
(***************************************************************************)
(* Model of practica2.py: the AFD engine (State, AFD), its two codecs      *)
(* (to_afd_format / from_afd_format, from_jff_format) and the load handler *)
(* of AFDSimulator.                                                        *)
(*                                                                         *)
(* Conventions.  A Python str is a sequence of one-character strings, so   *)
(* "q0,a" is <<"q", "0", ",", "a">> and "" is <<>>.  A State object is     *)
(* identified by its position in AFD.states (State defines neither __eq__  *)
(* nor __hash__, so Python compares and hashes it by identity); None is 0. *)
(* A Python dict is the sequence of its entries [k, v] in insertion order. *)
(***************************************************************************)
EXTENDS Integers, Sequences, FiniteSets, TLC

VARIABLES
    current_afd,   \* the AFD object the calls act on (AFDSimulator.current_afd)
    call,          \* the most recent call: [op, args, ret]
    message,       \* the kind of the last messagebox shown by a handler
    file,          \* the content of the file a codec is applied to
    earlier,       \* a validate_string call made before the most recent one
                   \* on the automaton as it is now, or NoCall
    simulation_steps, \* AFDSimulator.simulation_steps
    current_step,  \* AFDSimulator.current_step
    steps_afd      \* the AFD object whose State objects simulation_steps
                   \* holds: "current" when it is the object current_afd is
                   \* now, "replaced" when current_afd was assigned since

vars == <<current_afd, call, message, file, earlier, simulation_steps,
          current_step, steps_afd>>

-----------------------------------------------------------------------------
(* Bounds of the model *)

MaxStates == 2

MaxTrans == 2

MaxLen == 2

MaxRecStates == 2

MaxRecTrans == 2

MaxDocStates == 2

MaxDocTrans == 2

-----------------------------------------------------------------------------
(* Strings *)

None == 0

EmptyStr == <<>>

Comma == ","

StringsUpTo(chars, n) == UNION {[1..k -> chars] : k \in 0..n}

SeqsUpTo(S, n) == UNION {[1..k -> S] : k \in 0..n}

Range(s) == {s[i] : i \in 1..Len(s)}

\* s[i:] of Python, i 0-based
Suffix(s, i) == SubSeq(s, i + 1, Len(s))

\* s[:i] of Python, i 0-based
Prefix(s, i) == SubSeq(s, 1, i)

-----------------------------------------------------------------------------
(* Python dict: entries [k, v] in insertion order, keys pairwise distinct *)

DictHas(d, key) == \E i \in 1..Len(d) : d[i].k = key

DictIndex(d, key) == CHOOSE i \in 1..Len(d) : d[i].k = key

DictGet(d, key) == d[DictIndex(d, key)].v

\* d[key] = value: overwrite in place when the key is present, else append
DictSet(d, key, value) ==
    IF DictHas(d, key)
    THEN [d EXCEPT ![DictIndex(d, key)] = [k |-> key, v |-> value]]
    ELSE Append(d, [k |-> key, v |-> value])

-----------------------------------------------------------------------------
(* class State, class AFD *)

State(name, is_initial, is_final) ==
    [name |-> name, is_initial |-> is_initial, is_final |-> is_final]

AFD ==
    [states |-> <<>>, alphabet |-> {}, initial_state |-> None,
     final_states |-> <<>>, transitions |-> <<>>]

\* add_state keeping the first initial state instead of the last
add_state_first_initial(afd, state, is_initial, is_final) ==
    LET new_state == Len(afd.states) + 1
    IN  [afd EXCEPT
            !.states = Append(@, State(state, is_initial, is_final)),
            !.initial_state = IF is_initial /\ @ = None THEN new_state ELSE @,
            !.final_states = IF is_final THEN Append(@, new_state) ELSE @]

\* add_state putting a final state at the front of final_states
add_state_final_front(afd, state, is_initial, is_final) ==
    LET new_state == Len(afd.states) + 1
    IN  [afd EXCEPT
            !.states = Append(@, State(state, is_initial, is_final)),
            !.initial_state = IF is_initial THEN new_state ELSE @,
            !.final_states = IF is_final THEN <<new_state>> \o @ ELSE @]

\* add_state keeping only the newest final state
add_state_single_final(afd, state, is_initial, is_final) ==
    LET new_state == Len(afd.states) + 1
    IN  [afd EXCEPT
            !.states = Append(@, State(state, is_initial, is_final)),
            !.initial_state = IF is_initial THEN new_state ELSE @,
            !.final_states = IF is_final THEN <<new_state>> ELSE @]

add_state(afd, state, is_initial, is_final) ==
    LET new_state == Len(afd.states) + 1
    IN  [afd EXCEPT
            !.states = Append(@, State(state, is_initial, is_final)),
            !.initial_state = IF is_initial THEN new_state ELSE @,
            !.final_states = IF is_final THEN Append(@, new_state) ELSE @]

\* add_transition that never overwrites: the pair gets a second entry
add_transition_append(afd, from_state, symbol, to_state) ==
    [afd EXCEPT
        !.alphabet = IF symbol \notin @ /\ symbol # EmptyStr
                     THEN @ \cup {symbol} ELSE @,
        !.transitions = Append(@, [k |-> <<from_state, symbol>>, v |-> to_state])]

\* add_transition registering every symbol, the empty one included
add_transition_every_symbol(afd, from_state, symbol, to_state) ==
    [afd EXCEPT
        !.alphabet = @ \cup {symbol},
        !.transitions = DictSet(@, <<from_state, symbol>>, to_state)]

add_transition(afd, from_state, symbol, to_state) ==
    [afd EXCEPT
        !.alphabet = IF symbol \notin @ /\ symbol # EmptyStr
                     THEN @ \cup {symbol} ELSE @,
        !.transitions = DictSet(@, <<from_state, symbol>>, to_state)]

\* the last state, in insertion order, whose name is name
get_state_by_name_last(afd, name) ==
    IF \E i \in 1..Len(afd.states) : afd.states[i].name = name
    THEN CHOOSE i \in 1..Len(afd.states) :
            /\ afd.states[i].name = name
            /\ \A j \in (i + 1)..Len(afd.states) : afd.states[j].name # name
    ELSE None

\* the first state, in insertion order, whose name is name
get_state_by_name(afd, name) ==
    IF \E i \in 1..Len(afd.states) : afd.states[i].name = name
    THEN CHOOSE i \in 1..Len(afd.states) :
            /\ afd.states[i].name = name
            /\ \A j \in 1..(i - 1) : afd.states[j].name # name
    ELSE None

-----------------------------------------------------------------------------
(* AFD.validate_string *)

Step(state, position, remaining) ==
    [state |-> state, position |-> position, remaining |-> remaining]

RECURSIVE ValidateLoopResume(_, _, _, _, _)
\* the loop resuming after an unmatched symbol instead of returning
ValidateLoopResume(afd, input_string, i, current_state, steps) ==
    IF i >= Len(input_string)
    THEN [accepted |-> current_state \in Range(afd.final_states),
          steps |-> steps]
    ELSE LET symbol == <<input_string[i + 1]>>
             next == IF DictHas(afd.transitions, <<current_state, symbol>>)
                     THEN DictGet(afd.transitions, <<current_state, symbol>>)
                     ELSE None
         IN  ValidateLoopResume(afd, input_string, i + 1,
                 IF next = None THEN current_state ELSE next,
                 Append(steps, Step(next, i + 1, Suffix(input_string, i + 1))))

RECURSIVE ValidateLoopStalePosition(_, _, _, _, _)
\* the loop recording the index of the symbol read, i, instead of i + 1
ValidateLoopStalePosition(afd, input_string, i, current_state, steps) ==
    IF i >= Len(input_string)
    THEN [accepted |-> current_state \in Range(afd.final_states),
          steps |-> steps]
    ELSE LET symbol == <<input_string[i + 1]>>
         IN  IF ~DictHas(afd.transitions, <<current_state, symbol>>)
             THEN [accepted |-> FALSE,
                   steps |-> Append(steps,
                                Step(None, i, Suffix(input_string, i)))]
             ELSE LET next == DictGet(afd.transitions, <<current_state, symbol>>)
                  IN  ValidateLoopStalePosition(afd, input_string, i + 1, next,
                          Append(steps,
                              Step(next, i, Suffix(input_string, i))))

RECURSIVE ValidateLoopEmptyMove(_, _, _, _, _)
\* the loop taking a transition on the empty symbol at the end of the input
ValidateLoopEmptyMove(afd, input_string, i, current_state, steps) ==
    IF i >= Len(input_string)
    THEN [accepted |->
             \/ current_state \in Range(afd.final_states)
             \/ /\ DictHas(afd.transitions, <<current_state, EmptyStr>>)
                /\ DictGet(afd.transitions, <<current_state, EmptyStr>>)
                      \in Range(afd.final_states),
          steps |-> steps]
    ELSE LET symbol == <<input_string[i + 1]>>
         IN  IF ~DictHas(afd.transitions, <<current_state, symbol>>)
             THEN [accepted |-> FALSE,
                   steps |-> Append(steps,
                                Step(None, i + 1, Suffix(input_string, i + 1)))]
             ELSE LET next == DictGet(afd.transitions, <<current_state, symbol>>)
                  IN  ValidateLoopEmptyMove(afd, input_string, i + 1, next,
                          Append(steps,
                              Step(next, i + 1, Suffix(input_string, i + 1))))

RECURSIVE ValidateLoop(_, _, _, _, _)
\* the for loop of validate_string at 0-based index i
ValidateLoop(afd, input_string, i, current_state, steps) ==
    IF i >= Len(input_string)
    THEN [accepted |-> current_state \in Range(afd.final_states),
          steps |-> steps]
    ELSE LET symbol == <<input_string[i + 1]>>
         IN  IF ~DictHas(afd.transitions, <<current_state, symbol>>)
             THEN [accepted |-> FALSE,
                   steps |-> Append(steps,
                                Step(None, i + 1, Suffix(input_string, i + 1)))]
             ELSE LET next == DictGet(afd.transitions, <<current_state, symbol>>)
                  IN  ValidateLoop(afd, input_string, i + 1, next,
                          Append(steps,
                              Step(next, i + 1, Suffix(input_string, i + 1))))

\* validate_string accepting whenever the walk reaches the end of the input
validate_string_no_final_test(afd, input_string) ==
    IF afd.initial_state = None
    THEN [accepted |-> FALSE, steps |-> <<>>]
    ELSE LET r == ValidateLoop(afd, input_string, 0, afd.initial_state,
                      <<Step(afd.initial_state, 0, input_string)>>)
         IN  [r EXCEPT !.accepted = (r.steps[Len(r.steps)].state # None)]

\* validate_string returning the steps taken without the error step
validate_string_no_error_step(afd, input_string) ==
    IF afd.initial_state = None
    THEN [accepted |-> FALSE, steps |-> <<>>]
    ELSE LET r == ValidateLoop(afd, input_string, 0, afd.initial_state,
                      <<Step(afd.initial_state, 0, input_string)>>)
         IN  IF r.steps[Len(r.steps)].state = None
             THEN [r EXCEPT !.steps = SubSeq(@, 1, Len(@) - 1)]
             ELSE r

\* validate_string without the test for a missing initial state
validate_string_no_initial_test(afd, input_string) ==
    ValidateLoop(afd, input_string, 0, afd.initial_state,
        <<Step(afd.initial_state, 0, input_string)>>)

\* validate_string closing a completed walk with one more step
validate_string_end_step(afd, input_string) ==
    IF afd.initial_state = None
    THEN [accepted |-> FALSE, steps |-> <<>>]
    ELSE LET r == ValidateLoop(afd, input_string, 0, afd.initial_state,
                      <<Step(afd.initial_state, 0, input_string)>>)
         IN  IF r.steps[Len(r.steps)].state # None
             THEN [r EXCEPT !.steps = Append(@, Step(r.steps[Len(r.steps)].state,
                                                     Len(input_string), EmptyStr))]
             ELSE r

validate_string(afd, input_string) ==
    IF afd.initial_state = None
    THEN [accepted |-> FALSE, steps |-> <<>>]
    ELSE ValidateLoop(afd, input_string, 0, afd.initial_state,
             <<Step(afd.initial_state, 0, input_string)>>)

-----------------------------------------------------------------------------
(* AFD.to_afd_format, AFD.from_afd_format *)

RECURSIVE Split(_, _)
\* s.split(sep) for a one-character sep: the parts between all occurrences
Split(s, sep) ==
    IF \E i \in 1..Len(s) : s[i] = sep
    THEN LET i == CHOOSE i \in 1..Len(s) :
                    s[i] = sep /\ \A j \in 1..(i - 1) : s[j] # sep
         IN  <<Prefix(s, i - 1)>> \o Split(Suffix(s, i), sep)
    ELSE <<s>>

RECURSIVE TransitionsToDictKeepFirst(_, _, _)
\* the comprehension keeping the first value written for a key
TransitionsToDictKeepFirst(afd, i, d) ==
    IF i > Len(afd.transitions)
    THEN d
    ELSE LET from_state == afd.transitions[i].k[1]
             symbol == afd.transitions[i].k[2]
             to_state == afd.transitions[i].v
             key == afd.states[from_state].name \o <<Comma>> \o symbol
         IN  TransitionsToDictKeepFirst(afd, i + 1,
                 IF DictHas(d, key) THEN d
                 ELSE DictSet(d, key, afd.states[to_state].name))

RECURSIVE TransitionsToDict(_, _, _)
\* the dict comprehension of to_afd_format over transitions.items() from entry i
TransitionsToDict(afd, i, d) ==
    IF i > Len(afd.transitions)
    THEN d
    ELSE LET from_state == afd.transitions[i].k[1]
             symbol == afd.transitions[i].k[2]
             to_state == afd.transitions[i].v
         IN  TransitionsToDict(afd, i + 1,
                 DictSet(d, afd.states[from_state].name \o <<Comma>> \o symbol,
                         afd.states[to_state].name))

to_afd_format(afd) ==
    [kind |-> "afd",
     alphabet |-> afd.alphabet,
     states |-> [i \in 1..Len(afd.states) |-> afd.states[i].name],
     initial_state |-> IF afd.initial_state # None
                       THEN afd.states[afd.initial_state].name ELSE EmptyStr,
     final_states |-> [i \in 1..Len(afd.final_states) |->
                          afd.states[afd.final_states[i]].name],
     transitions |-> TransitionsToDict(afd, 1, <<>>)]

RECURSIVE FromAfdStates(_, _, _)
\* the loop over data["states"] from the i-th name
FromAfdStates(afd, data, i) ==
    IF i > Len(data.states)
    THEN afd
    ELSE LET state_name == data.states[i]
             is_initial == state_name = data.initial_state
             is_final == state_name \in Range(data.final_states)
         IN  FromAfdStates(add_state(afd, state_name, is_initial, is_final),
                           data, i + 1)

RECURSIVE FromAfdTransitions(_, _, _)
\* the loop over data["transitions"].items() from the i-th entry; the
\* unpacking of transition_key.split(",") raises ValueError unless the key
\* has exactly two parts
FromAfdTransitions(afd, data, i) ==
    IF i > Len(data.transitions)
    THEN [ok |-> TRUE, error |-> "none", afd |-> afd]
    ELSE LET parts == Split(data.transitions[i].k, Comma)
         IN  IF Len(parts) # 2
             THEN [ok |-> FALSE, error |-> "ValueError", afd |-> afd]
             ELSE LET from_state == get_state_by_name(afd, parts[1])
                      to_state == get_state_by_name(afd, data.transitions[i].v)
                  IN  FromAfdTransitions(
                          IF from_state # None /\ to_state # None
                          THEN add_transition(afd, from_state, parts[2], to_state)
                          ELSE afd,
                          data, i + 1)

\* [ok, error, afd]: the AFD returned, or the exception raised and the AFD
\* built so far
from_afd_format(data) == FromAfdTransitions(FromAfdStates(AFD, data, 1), data, 1)

-----------------------------------------------------------------------------
(* AFD.from_jff_format.  A document is [kind, parses, states, transitions]: *)
(* whether ET.fromstring parses it, its state elements [id, name, initial,  *)
(* final] and its transition elements [from, to, read] in document order;   *)
(* an optional attribute or element is [present, text].                     *)

Attr(text) == [present |-> TRUE, text |-> text]

NoAttr == [present |-> FALSE, text |-> EmptyStr]

RECURSIVE FromJffStatesIdNames(_, _, _)
\* the state loop naming every state by its id
FromJffStatesIdNames(acc, doc, i) ==
    IF i > Len(doc.states)
    THEN acc
    ELSE LET state_elem == doc.states[i]
             state_id == state_elem.id
             afd == add_state(acc.afd, state_id,
                              state_elem.initial, state_elem.final)
         IN  FromJffStatesIdNames(
                 [afd |-> afd,
                  id_to_state |-> DictSet(acc.id_to_state, state_id,
                                          Len(afd.states))],
                 doc, i + 1)

RECURSIVE FromJffStates(_, _, _)
\* the loop over the state elements from the i-th: [afd, id_to_state]
FromJffStates(acc, doc, i) ==
    IF i > Len(doc.states)
    THEN acc
    ELSE LET state_elem == doc.states[i]
             state_id == state_elem.id
             state_name == IF state_elem.name.present
                           THEN state_elem.name.text ELSE state_id
             afd == add_state(acc.afd, state_name,
                              state_elem.initial, state_elem.final)
         IN  FromJffStates(
                 [afd |-> afd,
                  id_to_state |-> DictSet(acc.id_to_state, state_id,
                                          Len(afd.states))],
                 doc, i + 1)

RECURSIVE FromJffTransitionsSkip(_, _, _, _)
\* the transition loop skipping a transition whose id is unknown
FromJffTransitionsSkip(afd, id_to_state, doc, i) ==
    IF i > Len(doc.transitions)
    THEN [ok |-> TRUE, error |-> "none", afd |-> afd]
    ELSE LET trans_elem == doc.transitions[i]
             symbol == IF trans_elem.read.present
                          /\ trans_elem.read.text # EmptyStr
                       THEN trans_elem.read.text ELSE EmptyStr
         IN  IF ~DictHas(id_to_state, trans_elem.from)
                \/ ~DictHas(id_to_state, trans_elem.to)
             THEN FromJffTransitionsSkip(afd, id_to_state, doc, i + 1)
             ELSE FromJffTransitionsSkip(
                      add_transition(afd, DictGet(id_to_state, trans_elem.from),
                          symbol, DictGet(id_to_state, trans_elem.to)),
                      id_to_state, doc, i + 1)

RECURSIVE FromJffTransitions(_, _, _, _)
\* the loop over the transition elements from the i-th; id_to_state[from_id]
\* and id_to_state[to_id] raise KeyError for an unknown id
FromJffTransitions(afd, id_to_state, doc, i) ==
    IF i > Len(doc.transitions)
    THEN [ok |-> TRUE, error |-> "none", afd |-> afd]
    ELSE LET trans_elem == doc.transitions[i]
             symbol == IF trans_elem.read.present
                          /\ trans_elem.read.text # EmptyStr
                       THEN trans_elem.read.text ELSE EmptyStr
         IN  IF ~DictHas(id_to_state, trans_elem.from)
                \/ ~DictHas(id_to_state, trans_elem.to)
             THEN [ok |-> FALSE, error |-> "KeyError", afd |-> afd]
             ELSE FromJffTransitions(
                      add_transition(afd, DictGet(id_to_state, trans_elem.from),
                          symbol, DictGet(id_to_state, trans_elem.to)),
                      id_to_state, doc, i + 1)

\* [ok, error, afd]: the AFD returned, or the exception raised and the AFD
\* built so far
from_jff_format(jff_content) ==
    IF ~jff_content.parses
    THEN [ok |-> FALSE, error |-> "ParseError", afd |-> AFD]
    ELSE LET acc == FromJffStates([afd |-> AFD, id_to_state |-> <<>>],
                                  jff_content, 1)
         IN  FromJffTransitions(acc.afd, acc.id_to_state, jff_content, 1)

-----------------------------------------------------------------------------
(* The inputs of the engine's callers *)

EngineNames == {<<"q">>}

EngineSymbols == {<<"a">>}

InputChars == {"a", "b"}

InputStrings == StringsUpTo(InputChars, MaxLen)

NoCall == [op |-> "none", args |-> <<>>, ret |-> None]

NoFile == [kind |-> "none"]

Init ==
    /\ current_afd = AFD
    /\ call = NoCall
    /\ message = "none"
    /\ file = NoFile
    /\ earlier = NoCall
    /\ simulation_steps = <<>>
    /\ current_step = 0
    /\ steps_afd = "current"

AddState(name, is_initial, is_final) ==
    /\ Len(current_afd.states) < MaxStates
    /\ current_afd' = add_state(current_afd, name, is_initial, is_final)
    /\ call' = [op |-> "add_state", args |-> <<name, is_initial, is_final>>,
                ret |-> Len(current_afd.states) + 1]
    /\ UNCHANGED <<message, file, earlier, simulation_steps,
                 current_step, steps_afd>>

AddTransition(from_state, symbol, to_state) ==
    /\ from_state \in 1..Len(current_afd.states)
    /\ to_state \in 1..Len(current_afd.states)
    /\ \/ DictHas(current_afd.transitions, <<from_state, symbol>>)
       \/ Len(current_afd.transitions) < MaxTrans
    /\ current_afd' = add_transition(current_afd, from_state, symbol, to_state)
    /\ call' = [op |-> "add_transition",
                args |-> <<from_state, symbol, to_state>>, ret |-> None]
    /\ UNCHANGED <<message, file, earlier, simulation_steps,
                 current_step, steps_afd>>

ValidateString(input_string) ==
    /\ call' = [op |-> "validate_string", args |-> <<input_string>>,
                ret |-> validate_string(current_afd, input_string)]
    /\ UNCHANGED <<current_afd, message, file, earlier, simulation_steps,
                 current_step, steps_afd>>

NextEngine ==
    \/ \E name \in EngineNames, i \in BOOLEAN, f \in BOOLEAN : AddState(name, i, f)
    \/ \E from_state \in 1..MaxStates, symbol \in EngineSymbols,
          to_state \in 1..MaxStates : AddTransition(from_state, symbol, to_state)
    \/ \E input_string \in InputStrings : ValidateString(input_string)

SpecEngine == Init /\ [][NextEngine]_vars

-----------------------------------------------------------------------------
(* The round trip through the native format: an automaton built by a       *)
(* caller that rejects duplicate names before add_state, as the simulator  *)
(* does, is written by to_afd_format and read back by from_afd_format.     *)

NativeNames == {<<"q">>, <<"p">>}

NativeSymbols == {<<"a">>, <<Comma>>, EmptyStr}

ToAfdFormat ==
    /\ call' = [op |-> "to_afd_format", args |-> <<>>,
                ret |-> to_afd_format(current_afd)]
    /\ UNCHANGED <<current_afd, message, file, earlier, simulation_steps,
                 current_step, steps_afd>>

FromAfdFormat(data) ==
    /\ call' = [op |-> "from_afd_format", args |-> <<data>>,
                ret |-> from_afd_format(data)]
    /\ UNCHANGED <<current_afd, message, file, earlier, simulation_steps,
                 current_step, steps_afd>>

NextNative ==
    \/ \E name \in NativeNames, i \in BOOLEAN, f \in BOOLEAN :
          /\ get_state_by_name(current_afd, name) = None
          /\ AddState(name, i, f)
    \/ \E from_state \in 1..MaxStates, symbol \in NativeSymbols,
          to_state \in 1..MaxStates : AddTransition(from_state, symbol, to_state)
    \/ ToAfdFormat
    \/ call.op = "to_afd_format" /\ FromAfdFormat(call.ret)

SpecNative == Init /\ [][NextNative]_vars

-----------------------------------------------------------------------------
(* The codecs applied to the content of a file: any native record and any  *)
(* interchange document within the bounds.                                 *)

RecNames == {<<"q">>, <<"p">>}

\* "q,a", "p,a", "z,a" (unknown from-name), "q,," (symbol ","), "q" (no comma)
RecKeys ==
    {<<"q", Comma, "a">>, <<"p", Comma, "a">>, <<"z", Comma, "a">>,
     <<"q", Comma, Comma>>, <<"q">>}

RecEntries == [k : RecKeys, v : {<<"q">>, <<"z">>}]

\* a JSON object has one value for each key
RecDicts ==
    {d \in SeqsUpTo(RecEntries, MaxRecTrans) :
        \A i, j \in 1..Len(d) : d[i].k = d[j].k => i = j}

Records ==
    [kind : {"afd"},
     alphabet : {{}, {<<"b">>}},
     states : SeqsUpTo(RecNames, MaxRecStates),
     initial_state : {EmptyStr, <<"q">>},
     final_states : SeqsUpTo(RecNames, 1),
     transitions : RecDicts]

DocIds == {<<"0">>, <<"1">>}

\* <<"9">> is the id of no state element
DocRefs == DocIds \cup {<<"9">>}

DocStateElems ==
    {[id |-> id, name |-> m.name, initial |-> m.initial, final |-> m.final] :
        id \in DocIds,
        m \in {[name |-> NoAttr, initial |-> TRUE, final |-> FALSE],
               [name |-> Attr(<<"q">>), initial |-> FALSE, final |-> TRUE],
               [name |-> NoAttr, initial |-> FALSE, final |-> FALSE]}}

\* a read element may be absent, hold a text, or be present without text
DocTransElems ==
    {[from |-> e[1], to |-> e[2], read |-> r] :
        e \in {<<<<"0">>, <<"0">>>>, <<<<"0">>, <<"1">>>>, <<<<"1">>, <<"0">>>>,
               <<<<"0">>, <<"9">>>>, <<<<"9">>, <<"0">>>>},
        r \in {NoAttr, Attr(<<"a">>)}}
    \cup {[from |-> <<"0">>, to |-> <<"1">>, read |-> Attr(EmptyStr)]}

\* one unparseable document, and the well-formed ones
JffDocs ==
    {[kind |-> "jff", parses |-> FALSE, states |-> <<>>, transitions |-> <<>>]}
    \cup [kind : {"jff"}, parses : {TRUE},
          states : SeqsUpTo(DocStateElems, MaxDocStates),
          transitions : SeqsUpTo(DocTransElems, MaxDocTrans)]

InitFiles ==
    /\ current_afd = AFD
    /\ call = NoCall
    /\ message = "none"
    /\ file \in Records \cup JffDocs
    /\ earlier = NoCall
    /\ simulation_steps = <<>>
    /\ current_step = 0
    /\ steps_afd = "current"

FromJffFormat(jff_content) ==
    /\ call' = [op |-> "from_jff_format", args |-> <<jff_content>>,
                ret |-> from_jff_format(jff_content)]
    /\ UNCHANGED <<current_afd, message, file, earlier, simulation_steps,
                 current_step, steps_afd>>

NextFiles ==
    \/ call.op = "none" /\ file.kind = "afd" /\ FromAfdFormat(file)
    \/ call.op = "none" /\ file.kind = "jff" /\ FromJffFormat(file)

SpecFiles == InitFiles /\ [][NextFiles]_vars

-----------------------------------------------------------------------------
(* An automaton built by a codec and then changed by direct calls: the     *)
(* caller keeps the AFD a codec returned (afd = AFD.from_afd_format(data)) *)
(* and goes on with add_state and add_transition, also with the empty      *)
(* symbol.                                                                 *)

BuildSymbols == {<<"a">>, EmptyStr}

\* records of one state "q": keys "q,a", "q," (empty symbol) and "z,a"
\* (unknown from-name); the alphabet field lists "b", which labels nothing
BuildRecords ==
    [kind : {"afd"},
     alphabet : {{}, {<<"b">>}},
     states : {<<<<"q">>>>},
     initial_state : {<<"q">>},
     final_states : {<<>>},
     transitions :
        {d \in SeqsUpTo([k : {<<"q", Comma, "a">>, <<"q", Comma>>,
                              <<"z", Comma, "a">>},
                         v : {<<"q">>}], MaxRecTrans) :
            \A i, j \in 1..Len(d) : d[i].k = d[j].k => i = j}]

\* documents of one state: a transition with a read text, without a read
\* element, and with an empty read element
BuildDocs ==
    [kind : {"jff"}, parses : {TRUE},
     states : {<<[id |-> <<"0">>, name |-> NoAttr,
                  initial |-> TRUE, final |-> FALSE]>>},
     transitions :
        SeqsUpTo([from : {<<"0">>}, to : {<<"0">>},
                  read : {NoAttr, Attr(EmptyStr), Attr(<<"a">>)}], MaxDocTrans)]

\* afd = AFD.from_afd_format(data) / AFD.from_jff_format(content): the
\* returned automaton is the one the following calls act on
BuildFrom(picked) ==
    LET r == IF picked.kind = "afd"
             THEN from_afd_format(picked) ELSE from_jff_format(picked)
    IN  /\ call.op = "none"
        /\ r.ok
        /\ current_afd' = r.afd
        /\ call' = [op |-> IF picked.kind = "afd" THEN "from_afd_format"
                           ELSE "from_jff_format",
                    args |-> <<picked>>, ret |-> None]
        /\ UNCHANGED <<message, file, earlier, simulation_steps,
                 current_step, steps_afd>>

NextBuild ==
    \/ \E picked \in BuildRecords \cup BuildDocs : BuildFrom(picked)
    \/ \E name \in EngineNames, i \in BOOLEAN, f \in BOOLEAN : AddState(name, i, f)
    \/ \E from_state \in 1..MaxStates, symbol \in BuildSymbols,
          to_state \in 1..MaxStates : AddTransition(from_state, symbol, to_state)

SpecBuild == Init /\ [][NextBuild]_vars

-----------------------------------------------------------------------------
(* Repeated validation: an automaton is built by direct calls and then     *)
(* validate_string is called any number of times; earlier keeps one of the *)
(* calls made before the most recent one.                                  *)

PureStrings == StringsUpTo({"a"}, MaxLen)

\* validate_string leaving the walk's last state behind as the initial state
ValidateStringMoving(input_string, remember) ==
    LET r == validate_string(current_afd, input_string)
        last == IF r.steps # <<>> /\ r.steps[Len(r.steps)].state # None
                THEN r.steps[Len(r.steps)].state
                ELSE current_afd.initial_state
    IN  /\ call' = [op |-> "validate_string", args |-> <<input_string>>,
                    ret |-> r]
        /\ current_afd' = [current_afd EXCEPT !.initial_state = last]
        /\ earlier' = IF remember /\ call.op = "validate_string"
                      THEN call ELSE earlier
        /\ UNCHANGED <<message, file, simulation_steps, current_step, steps_afd>>

\* a validate_string call after which the caller may keep the result of the
\* call before it
ValidateStringAgain(input_string, remember) ==
    /\ call' = [op |-> "validate_string", args |-> <<input_string>>,
                ret |-> validate_string(current_afd, input_string)]
    /\ earlier' = IF remember /\ call.op = "validate_string"
                  THEN call ELSE earlier
    /\ UNCHANGED <<current_afd, message, file, simulation_steps, current_step,
                 steps_afd>>

NextPure ==
    \/ \E name \in EngineNames, i \in BOOLEAN, f \in BOOLEAN :
          call.op # "validate_string" /\ AddState(name, i, f)
    \/ \E from_state \in 1..MaxStates, symbol \in EngineSymbols,
          to_state \in 1..MaxStates :
          call.op # "validate_string" /\ AddTransition(from_state, symbol, to_state)
    \/ \E input_string \in PureStrings, remember \in BOOLEAN :
          ValidateStringAgain(input_string, remember)

SpecPure == Init /\ [][NextPure]_vars

-----------------------------------------------------------------------------
(* Validation of automata that have transitions on the empty symbol: the   *)
(* automaton is built by direct calls and then validated.                  *)

NextEpsilon ==
    \/ \E name \in EngineNames, i \in BOOLEAN, f \in BOOLEAN :
          call.op # "validate_string" /\ AddState(name, i, f)
    \/ \E from_state \in 1..MaxStates, symbol \in BuildSymbols,
          to_state \in 1..MaxStates :
          call.op # "validate_string" /\ AddTransition(from_state, symbol, to_state)
    \/ \E input_string \in PureStrings : ValidateString(input_string)

SpecEpsilon == Init /\ [][NextEpsilon]_vars

-----------------------------------------------------------------------------
(* Queries on automata whose names the caller did not check: two states    *)
(* may share a name and a name may hold a comma.  The automaton is built   *)
(* by direct calls and then read by get_state_by_name and to_afd_format.   *)

\* "q" and "q,"
QueryNames == {<<"q">>, <<"q", Comma>>}

\* "," and the empty symbol
QuerySymbols == {<<Comma>>, EmptyStr}

\* <<is_initial, is_final>>: a state is added as initial or as final
QueryFlags == {<<TRUE, FALSE>>, <<FALSE, TRUE>>}

GetStateByName(name) ==
    /\ call' = [op |-> "get_state_by_name", args |-> <<name>>,
                ret |-> get_state_by_name(current_afd, name)]
    /\ UNCHANGED <<current_afd, message, file, earlier, simulation_steps,
                 current_step, steps_afd>>

Building == call.op \in {"none", "add_state", "add_transition"}

NextQuery ==
    \/ \E name \in QueryNames, flags \in QueryFlags :
          Building /\ AddState(name, flags[1], flags[2])
    \/ \E from_state \in 1..MaxStates, symbol \in QuerySymbols,
          to_state \in 1..MaxStates :
          Building /\ AddTransition(from_state, symbol, to_state)
    \/ \E name \in QueryNames : GetStateByName(name)
    \/ ToAfdFormat

SpecQuery == Init /\ [][NextQuery]_vars

-----------------------------------------------------------------------------
(* AFDSimulator: the handlers that change current_afd.  A handler's inputs *)
(* are what the user typed or picked; message is the messagebox the        *)
(* handler showed ("none" when it showed none, "info" for showinfo,        *)
(* "error" for the error of load_afd, "error_..." for the errors of the    *)
(* add handlers).                                                          *)

Space == " "

RECURSIVE Strip(_)
\* str.strip(): leading and trailing blanks removed
Strip(s) ==
    IF Len(s) = 0 THEN s
    ELSE IF s[1] = Space THEN Strip(Suffix(s, 1))
    ELSE IF s[Len(s)] = Space THEN Strip(Prefix(s, Len(s) - 1))
    ELSE s

\* "q", "p", " " (blank) and "q " as typed into the state name entry
UiTypedNames == {<<"q">>, <<"p">>, <<Space>>, <<"q", Space>>}

\* "a" and " a" as typed into the symbol entry
UiTypedSymbols == {<<"a">>, <<Space, "a">>}

\* the text of a state combobox: empty, or a name picked from its values;
\* the handlers never clear it, so after a reset or a load it may name a
\* state of the automaton held before
UiPickedNames == {EmptyStr, <<"q">>, <<"p">>}

\* the file the open dialog returned: none (cancelled), a file that is
\* neither .afd nor .jff, a .afd record or a .jff document
SimRecords ==
    [kind : {"afd"},
     alphabet : {{}},
     states : {<<<<"q">>>>},
     initial_state : {<<"q">>},
     final_states : {<<>>, <<<<"q">>>>},
     transitions :
        {d \in SeqsUpTo([k : {<<"q", Comma, "a">>, <<"q", Comma, Comma>>, <<"q">>},
                         v : {<<"q">>}], MaxRecTrans) :
            \A i, j \in 1..Len(d) : d[i].k = d[j].k => i = j}]

SimDocs ==
    {[kind |-> "jff", parses |-> FALSE, states |-> <<>>, transitions |-> <<>>]}
    \cup [kind : {"jff"}, parses : {TRUE},
          states : {<<[id |-> <<"0">>, name |-> Attr(<<"q">>),
                       initial |-> TRUE, final |-> FALSE]>>},
          transitions :
             SeqsUpTo([from : {<<"0">>}, to : {<<"0">>, <<"9">>},
                       read : {Attr(<<"a">>)}], MaxDocTrans)]

SimFiles == {[kind |-> "cancelled"], [kind |-> "other"]} \cup SimRecords \cup SimDocs

\* the add_state handler without the test for an existing name
add_state_handler_no_exists_test(afd, typed_name, is_initial, is_final) ==
    LET state_name == Strip(typed_name)
    IN  IF state_name = EmptyStr
        THEN [current_afd |-> afd, message |-> "error_empty_name"]
        ELSE [current_afd |-> add_state(afd, state_name, is_initial, is_final),
              message |-> "none"]

\* the add_transition handler without the test for an existing transition
add_transition_handler_no_exists_test(afd, from_state_name, typed_symbol, to_state_name) ==
    LET symbol == Strip(typed_symbol)
    IN  IF from_state_name = EmptyStr \/ to_state_name = EmptyStr
        THEN [current_afd |-> afd, message |-> "error_select"]
        ELSE [current_afd |->
                 add_transition(afd, get_state_by_name(afd, from_state_name),
                                symbol, get_state_by_name(afd, to_state_name)),
              message |-> "none"]

\* AFDSimulator.add_state: [current_afd, message]
add_state_handler(afd, typed_name, is_initial, is_final) ==
    LET state_name == Strip(typed_name)
    IN  IF state_name = EmptyStr
        THEN [current_afd |-> afd, message |-> "error_empty_name"]
        ELSE IF get_state_by_name(afd, state_name) # None
        THEN [current_afd |-> afd, message |-> "error_state_exists"]
        ELSE [current_afd |-> add_state(afd, state_name, is_initial, is_final),
              message |-> "none"]

\* AFDSimulator.add_transition: [current_afd, message]
add_transition_handler(afd, from_state_name, typed_symbol, to_state_name) ==
    LET symbol == Strip(typed_symbol)
    IN  IF from_state_name = EmptyStr \/ to_state_name = EmptyStr
        THEN [current_afd |-> afd, message |-> "error_select"]
        ELSE IF symbol = EmptyStr /\ symbol # EmptyStr
        THEN [current_afd |-> afd, message |-> "error_symbol"]
        ELSE LET from_state == get_state_by_name(afd, from_state_name)
                 to_state == get_state_by_name(afd, to_state_name)
             IN  IF DictHas(afd.transitions, <<from_state, symbol>>)
                 THEN [current_afd |-> afd, message |-> "error_transition_exists"]
                 ELSE [current_afd |-> add_transition(afd, from_state, symbol,
                                                      to_state),
                       message |-> "none"]

\* load_afd keeping the automaton built up to the exception
load_afd_partial(afd, picked) ==
    IF picked.kind = "cancelled"
    THEN [current_afd |-> afd, message |-> "none", error |-> "none"]
    ELSE IF picked.kind = "other"
    THEN [current_afd |-> afd, message |-> "info", error |-> "none"]
    ELSE LET r == IF picked.kind = "afd"
                  THEN from_afd_format(picked) ELSE from_jff_format(picked)
         IN  [current_afd |-> r.afd,
              message |-> IF r.ok THEN "info" ELSE "error",
              error |-> r.error]

\* AFDSimulator.load_afd: [current_afd, message, error]; the assignment to
\* self.current_afd is not reached when the codec raises
load_afd(afd, picked) ==
    IF picked.kind = "cancelled"
    THEN [current_afd |-> afd, message |-> "none", error |-> "none"]
    ELSE IF picked.kind = "other"
    THEN [current_afd |-> afd, message |-> "info", error |-> "none"]
    ELSE LET r == IF picked.kind = "afd"
                  THEN from_afd_format(picked) ELSE from_jff_format(picked)
         IN  IF r.ok
             THEN [current_afd |-> r.afd, message |-> "info", error |-> "none"]
             ELSE [current_afd |-> afd, message |-> "error", error |-> r.error]

AddStateHandler(typed_name, is_initial, is_final) ==
    LET r == add_state_handler(current_afd, typed_name, is_initial, is_final)
    IN  /\ Len(r.current_afd.states) <= MaxStates
        /\ current_afd' = r.current_afd
        /\ message' = r.message
        /\ call' = [op |-> "add_state_handler", args |-> <<>>, ret |-> None]
        /\ UNCHANGED <<file, earlier, simulation_steps,
                 current_step, steps_afd>>

AddTransitionHandler(from_state_name, typed_symbol, to_state_name) ==
    LET r == add_transition_handler(current_afd, from_state_name, typed_symbol,
                                    to_state_name)
    IN  /\ Len(r.current_afd.transitions) <= MaxTrans
        /\ current_afd' = r.current_afd
        /\ message' = r.message
        /\ call' = [op |-> "add_transition_handler", args |-> <<>>, ret |-> None]
        /\ UNCHANGED <<file, earlier, simulation_steps,
                 current_step, steps_afd>>

LoadAfd(picked) ==
    LET r == load_afd(current_afd, picked)
    IN  /\ current_afd' = r.current_afd
        /\ message' = r.message
        /\ call' = [op |-> "load_afd", args |-> <<picked.kind>>, ret |-> r.error]
        \* self.current_afd is assigned a new AFD object when the codec
        \* returns; simulation_steps and current_step are not assigned
        /\ steps_afd' = IF /\ picked.kind \in {"afd", "jff"}
                           /\ r.message = "info"
                           /\ simulation_steps # <<>>
                        THEN "replaced" ELSE steps_afd
        /\ UNCHANGED <<file, earlier, simulation_steps, current_step>>

ResetAfd ==
    /\ current_afd' = AFD
    /\ message' = "none"
    /\ call' = [op |-> "reset_afd", args |-> <<>>, ret |-> None]
    /\ simulation_steps' = <<>>
    /\ current_step' = 0
    /\ steps_afd' = "current"
    /\ UNCHANGED <<file, earlier>>

Next ==
    \/ \E typed_name \in UiTypedNames, i \in BOOLEAN, f \in BOOLEAN :
          AddStateHandler(typed_name, i, f)
    \/ \E from_state_name \in UiPickedNames, typed_symbol \in UiTypedSymbols,
          to_state_name \in UiPickedNames :
          AddTransitionHandler(from_state_name, typed_symbol, to_state_name)
    \/ \E picked \in SimFiles : LoadAfd(picked)
    \/ ResetAfd

Spec == Init /\ [][Next]_vars

-----------------------------------------------------------------------------
(* The definition tab alone: states and transitions are added through the  *)
(* handlers, starting from the empty automaton, and the automaton is reset.*)
(* The symbol entry takes any text.                                        *)

\* "a" and "ab" as typed into the symbol entry
UiWideSymbols == {<<"a">>, <<"a", "b">>}

NextUi ==
    \/ \E typed_name \in UiTypedNames, i \in BOOLEAN, f \in BOOLEAN :
          AddStateHandler(typed_name, i, f)
    \/ \E from_state_name \in UiPickedNames, typed_symbol \in UiWideSymbols,
          to_state_name \in UiPickedNames :
          AddTransitionHandler(from_state_name, typed_symbol, to_state_name)
    \/ ResetAfd

SpecUi == Init /\ [][NextUi]_vars

-----------------------------------------------------------------------------
(* The simulation tab: validate_string stores the steps of a walk, and     *)
(* next_step, prev_step and reset_simulation move the cursor current_step  *)
(* over them.  call.args of a cursor handler is the cursor it read.        *)

\* next_step without the test for the last step
next_step_no_last_test(steps, cursor) ==
    IF steps # <<>> THEN cursor + 1 ELSE cursor

\* prev_step going back to the first step
prev_step_to_first(steps, cursor) ==
    IF steps # <<>> /\ cursor > 0 THEN 0 ELSE cursor

\* AFDSimulator.next_step: the value of current_step after the call
next_step(steps, cursor) ==
    IF steps # <<>> /\ cursor < Len(steps) - 1 THEN cursor + 1 ELSE cursor

\* AFDSimulator.prev_step: the value of current_step after the call
prev_step(steps, cursor) ==
    IF steps # <<>> /\ cursor > 0 THEN cursor - 1 ELSE cursor

\* AFDSimulator.validate_string on the text of the input entry
ValidateStringHandler(input_string) ==
    LET r == validate_string(current_afd, input_string)
    IN  /\ simulation_steps' = r.steps
        /\ current_step' = 0
        /\ steps_afd' = "current"
        /\ message' = "none"
        /\ call' = [op |-> "validate_string_handler", args |-> <<input_string>>,
                    ret |-> r.accepted]
        /\ UNCHANGED <<current_afd, file, earlier>>

NextStep ==
    /\ current_step' = next_step(simulation_steps, current_step)
    /\ message' = "none"
    /\ call' = [op |-> "next_step", args |-> <<current_step>>, ret |-> None]
    /\ UNCHANGED <<current_afd, file, earlier, simulation_steps, steps_afd>>

PrevStep ==
    /\ current_step' = prev_step(simulation_steps, current_step)
    /\ message' = "none"
    /\ call' = [op |-> "prev_step", args |-> <<current_step>>, ret |-> None]
    /\ UNCHANGED <<current_afd, file, earlier, simulation_steps, steps_afd>>

ResetSimulation ==
    /\ current_step' = 0
    /\ message' = "none"
    /\ call' = [op |-> "reset_simulation", args |-> <<current_step>>,
                ret |-> None]
    /\ UNCHANGED <<current_afd, file, earlier, simulation_steps, steps_afd>>

\* "q" and "p" as typed into the state name entry
SimTypedNames == {<<"q">>, <<"p">>}

\* "a" as typed into the symbol entry
SimTypedSymbols == {<<"a">>}

\* the text of the input entry
SimInputs == StringsUpTo({"a"}, MaxLen)

\* the files opened: a .afd record with the state "q", a .jff document
\* that does not parse
SimLoaded ==
    {[kind |-> "afd", alphabet |-> {}, states |-> <<<<"q">>>>,
      initial_state |-> <<"q">>, final_states |-> <<>>,
      transitions |-> <<[k |-> <<"q", Comma, "a">>, v |-> <<"q">>]>>],
     [kind |-> "jff", parses |-> FALSE, states |-> <<>>, transitions |-> <<>>]}

NextSim ==
    \/ \E typed_name \in SimTypedNames, i \in BOOLEAN, f \in BOOLEAN :
          AddStateHandler(typed_name, i, f)
    \/ \E from_state_name \in SimTypedNames, typed_symbol \in SimTypedSymbols,
          to_state_name \in SimTypedNames :
          AddTransitionHandler(from_state_name, typed_symbol, to_state_name)
    \/ \E input_string \in SimInputs : ValidateStringHandler(input_string)
    \/ NextStep
    \/ PrevStep
    \/ ResetSimulation
    \/ \E picked \in SimLoaded : LoadAfd(picked)
    \/ ResetAfd

SpecSim == Init /\ [][NextSim]_vars

-----------------------------------------------------------------------------
(* The walk of a deterministic automaton, defined on the transition table  *)
(* alone: the yardstick the claims about validate_string are stated with.  *)

Targets(afd, q, symbol) ==
    {afd.transitions[i].v :
        i \in {j \in 1..Len(afd.transitions) :
                  afd.transitions[j].k = <<q, symbol>>}}

RECURSIVE Reached(_, _)
\* the state the automaton is in after reading w from the initial state, or
\* None when there is no initial state or some symbol of w found no transition
Reached(afd, w) ==
    IF Len(w) = 0
    THEN afd.initial_state
    ELSE LET p == Reached(afd, Prefix(w, Len(w) - 1))
             t == Targets(afd, p, <<w[Len(w)]>>)
         IN  IF p = None \/ t = {} THEN None ELSE CHOOSE x \in t : TRUE

\* the symbol at 0-based index i is the first one of w without a transition
FailsAt(afd, w, i) ==
    /\ i \in 0..(Len(w) - 1)
    /\ Reached(afd, Prefix(w, i)) # None
    /\ Targets(afd, Reached(afd, Prefix(w, i)), <<w[i + 1]>>) = {}

Min(a, b) == IF a <= b THEN a ELSE b

LastOf(s) == s[Len(s)]

Validated == call.op = "validate_string"

\* the automaton of Example 1: q0 initial, q1 final, binary strings ending in 1
Example1 ==
    LET q0 == <<"q", "0">>
        q1 == <<"q", "1">>
        a0 == add_state(AFD, q0, TRUE, FALSE)
        a1 == add_state(a0, q1, FALSE, TRUE)
        a2 == add_transition(a1, 1, <<"0">>, 1)
        a3 == add_transition(a2, 1, <<"1">>, 2)
        a4 == add_transition(a3, 2, <<"0">>, 1)
    IN  add_transition(a4, 2, <<"1">>, 2)

-----------------------------------------------------------------------------
(* C1: when the automaton has an initial state and every symbol of the     *)
(* input finds a transition along the walk, validate_string accepts        *)
(* exactly when the state reached after the last symbol is in final_states *)
(* and the trace has len(input) + 1 elements; the empty input gives a      *)
(* one-element trace and is accepted iff the initial state is final.       *)
(* Example 1: "101" is accepted and "100" rejected, both with 4 steps.     *)
C1_CompletedWalk ==
    Validated =>
        LET w == call.args[1]
            r == call.ret
            q == Reached(current_afd, w)
            r101 == validate_string(Example1, <<"1", "0", "1">>)
            r100 == validate_string(Example1, <<"1", "0", "0">>)
        IN  /\ q # None =>
                  /\ r.accepted = (q \in Range(current_afd.final_states))
                  /\ Len(r.steps) = Len(w) + 1
                  /\ w = EmptyStr =>
                        /\ Len(r.steps) = 1
                        /\ r.accepted = (current_afd.initial_state
                                            \in Range(current_afd.final_states))
            /\ r101.accepted /\ Len(r101.steps) = 4
            /\ ~r100.accepted /\ Len(r100.steps) = 4

\* a two-symbol input walked to the end, ending in a final state that is not
\* the initial state
C1_Witness ==
    /\ Validated
    /\ Len(call.args[1]) = 2
    /\ call.ret.accepted
    /\ Reached(current_afd, call.args[1]) # None
    /\ Reached(current_afd, call.args[1]) # current_afd.initial_state

-----------------------------------------------------------------------------
(* C2: at the first symbol, at 0-based index i, without a transition,      *)
(* validate_string stops: it rejects, the last trace element is the error  *)
(* step (None, i + 1, input[i+1:]), no step lies beyond position i + 1,    *)
(* and no other element of any trace has state None.                       *)
C2_FirstUnmatchedStops ==
    Validated =>
        LET w == call.args[1]
            r == call.ret
        IN  /\ \A i \in 0..(Len(w) - 1) :
                  FailsAt(current_afd, w, i) =>
                    /\ ~r.accepted
                    /\ Len(r.steps) >= 1
                    /\ LastOf(r.steps) = Step(None, i + 1, Suffix(w, i + 1))
                    /\ \A k \in 1..Len(r.steps) : r.steps[k].position <= i + 1
            /\ \A k \in 1..Len(r.steps) :
                  r.steps[k].state = None =>
                    /\ k = Len(r.steps)
                    /\ ~r.accepted
                    /\ FailsAt(current_afd, w, r.steps[k].position - 1)

\* a walk that took one transition and then met an unmatched symbol with a
\* further symbol left unread
C2_Witness ==
    /\ Validated
    /\ MaxLen >= 2
    /\ \E i \in 1..(Len(call.args[1]) - 1) : FailsAt(current_afd, call.args[1], i)
    /\ LastOf(call.ret.steps).state = None

-----------------------------------------------------------------------------
(* C3 as stated: a walk that fails at 0-based index failure_index returns  *)
(* a trace of min(failure_index, len(input)) + 1 elements, and Example 1   *)
(* on "12" rejects with a trace of length 2 whose last state is None.      *)
FailedWalk ==
    /\ Validated
    /\ \E i \in 0..(Len(call.args[1]) - 1) : FailsAt(current_afd, call.args[1], i)

C3_Original ==
    FailedWalk =>
        /\ \A i \in 0..(Len(call.args[1]) - 1) :
              FailsAt(current_afd, call.args[1], i) =>
                  Len(call.ret.steps) = Min(i, Len(call.args[1])) + 1
        /\ LET r12 == validate_string(Example1, <<"1", "2">>)
           IN  /\ ~r12.accepted
               /\ Len(r12.steps) = 2
               /\ LastOf(r12.steps).state = None

(* C3 amended: a walk that fails at 0-based index failure_index returns a  *)
(* trace of failure_index + 2 elements (the initial step, one step per     *)
(* symbol matched, the error step), and Example 1 on "12" rejects with a   *)
(* trace of length 3 whose last state is None.                             *)
C3_FailedTraceLength ==
    FailedWalk =>
        /\ \A i \in 0..(Len(call.args[1]) - 1) :
              FailsAt(current_afd, call.args[1], i) =>
                  /\ ~call.ret.accepted
                  /\ Len(call.ret.steps) = i + 2
        /\ LET r12 == validate_string(Example1, <<"1", "2">>)
           IN  /\ ~r12.accepted
               /\ Len(r12.steps) = 3
               /\ LastOf(r12.steps).state = None

\* a walk that fails at its second symbol
C3_Witness ==
    /\ Validated
    /\ FailsAt(current_afd, call.args[1], 1)
    /\ Len(call.ret.steps) = 3

-----------------------------------------------------------------------------
(* C4: an automaton without initial state, whatever its states and         *)
(* transitions, rejects every input, the empty one included, with an empty *)
(* trace.                                                                  *)
C4_NoInitialRejects ==
    (Validated /\ current_afd.initial_state = None) =>
        call.ret = [accepted |-> FALSE, steps |-> <<>>]

\* states and a transition but no initial state, and a non-empty input
C4_Witness ==
    /\ Validated
    /\ current_afd.initial_state = None
    /\ Len(current_afd.states) >= 1
    /\ \E i \in 1..Len(current_afd.states) : current_afd.states[i].is_final
    /\ Len(current_afd.transitions) >= 1
    /\ Len(call.args[1]) >= 1
    /\ call.ret.steps = <<>>

-----------------------------------------------------------------------------
(* C10: transitions holds at most one target for each (state, symbol)      *)
(* pair; an add_transition call makes its to_state the pair's one target   *)
(* and changes the targets of no other pair, also when the pair already    *)
(* had a target; add_state changes no target.  Hence the target of a pair  *)
(* is the to_state of the most recent add_transition call for it.          *)
KeysOf(afd) == {afd.transitions[j].k : j \in 1..Len(afd.transitions)}

C10_OneTarget ==
    \A i, j \in 1..Len(current_afd.transitions) :
        current_afd.transitions[i].k = current_afd.transitions[j].k => i = j

C10_CallEffect ==
    LET pairs == KeysOf(current_afd) \cup KeysOf(current_afd')
    IN  /\ call'.op = "add_transition" =>
              /\ Targets(current_afd', call'.args[1], call'.args[2])
                    = {call'.args[3]}
              /\ \A pair \in pairs \ {<<call'.args[1], call'.args[2]>>} :
                    Targets(current_afd', pair[1], pair[2])
                        = Targets(current_afd, pair[1], pair[2])
        /\ call'.op = "add_state" =>
              \A pair \in pairs :
                  Targets(current_afd', pair[1], pair[2])
                      = Targets(current_afd, pair[1], pair[2])

C10_LastWriteWins == [](C10_OneTarget) /\ [][C10_CallEffect]_vars

\* a second add_transition for a pair has just replaced the pair's target
\* while another pair kept its own
C10_Witness ==
    /\ call.op = "add_transition"
    /\ Len(current_afd.transitions) = 2
    /\ current_afd.transitions[1].k = <<call.args[1], call.args[2]>>
    /\ current_afd.transitions[1].v = call.args[3]
    /\ current_afd.transitions[1].v # current_afd.transitions[1].k[1]
    /\ current_afd.transitions[2].v = current_afd.transitions[2].k[1]

-----------------------------------------------------------------------------
(* The native format as the specification reads it: a transition key is    *)
(* split at its first comma into the from-name and the symbol.             *)

HasComma(key) == \E i \in 1..Len(key) : key[i] = Comma

FirstComma(key) ==
    CHOOSE i \in 1..Len(key) :
        key[i] = Comma /\ \A j \in 1..(i - 1) : key[j] # Comma

KeyFromName(key) == Prefix(key, FirstComma(key) - 1)

KeySymbol(key) == Suffix(key, FirstComma(key))

NamesOf(afd) == [i \in 1..Len(afd.states) |-> afd.states[i].name]

InitialNameOf(afd) ==
    IF afd.initial_state = None
    THEN <<"none">>
    ELSE <<"state", afd.states[afd.initial_state].name>>

FinalNamesOf(afd) ==
    [i \in 1..Len(afd.final_states) |-> afd.states[afd.final_states[i]].name]

NamedTransitionsOf(afd) ==
    {<<afd.states[afd.transitions[i].k[1]].name, afd.transitions[i].k[2],
       afd.states[afd.transitions[i].v].name>> : i \in 1..Len(afd.transitions)}

TransitionsOf(afd) ==
    {<<afd.transitions[i].k[1], afd.transitions[i].k[2], afd.transitions[i].v>> :
        i \in 1..Len(afd.transitions)}

RoundTripped ==
    /\ call.op = "from_afd_format"
    /\ call.args[1] = to_afd_format(current_afd)

-----------------------------------------------------------------------------
(* C5: for an automaton built by add_state and add_transition calls whose  *)
(* state names contain no comma, from_afd_format(to_afd_format(A))         *)
(* completes and has the state names of A in the same order, the same      *)
(* initial state name (or none), the same final state names and the same   *)
(* set of (from-name, symbol, to-name) transitions.                        *)
C5_RoundTrip ==
    (/\ RoundTripped
     /\ \A i \in 1..Len(current_afd.states) :
            ~HasComma(current_afd.states[i].name)) =>
        /\ call.ret.ok
        /\ NamesOf(call.ret.afd) = NamesOf(current_afd)
        /\ InitialNameOf(call.ret.afd) = InitialNameOf(current_afd)
        /\ FinalNamesOf(call.ret.afd) = FinalNamesOf(current_afd)
        /\ NamedTransitionsOf(call.ret.afd) = NamedTransitionsOf(current_afd)

-----------------------------------------------------------------------------
(* C6: from_afd_format splits each transition key at its first comma only: *)
(* the from-name is the text before it and the symbol all the text after   *)
(* it, so the key "q,," with to-name "q" gives the transition on the       *)
(* symbol "," from q to q.                                                 *)
C6_SplitAtFirstComma ==
    call.op = "from_afd_format" =>
        LET data == call.args[1]
            r == call.ret
        IN  (\A i \in 1..Len(data.transitions) : HasComma(data.transitions[i].k))
            => \A i \in 1..Len(data.transitions) :
                  LET from_state == get_state_by_name(r.afd,
                                        KeyFromName(data.transitions[i].k))
                      to_state == get_state_by_name(r.afd, data.transitions[i].v)
                  IN  (from_state # None /\ to_state # None) =>
                        /\ r.ok
                        /\ Targets(r.afd, from_state,
                                   KeySymbol(data.transitions[i].k)) = {to_state}

-----------------------------------------------------------------------------
(* C7: from_afd_format skips, without raising, a transition whose          *)
(* from-name or to-name is the name of no state of the record, and adds    *)
(* every transition of the record whose two names resolve, whatever the    *)
(* order of the entries.                                                   *)
ResolvedOf(data, afd) ==
    {<<get_state_by_name(afd, KeyFromName(data.transitions[i].k)),
       KeySymbol(data.transitions[i].k),
       get_state_by_name(afd, data.transitions[i].v)>> :
        i \in {j \in 1..Len(data.transitions) :
                  /\ get_state_by_name(afd,
                         KeyFromName(data.transitions[j].k)) # None
                  /\ get_state_by_name(afd, data.transitions[j].v) # None}}

C7_SkipUnresolved ==
    call.op = "from_afd_format" =>
        LET data == call.args[1]
            r == call.ret
        IN  (\A i \in 1..Len(data.transitions) : HasComma(data.transitions[i].k))
            => /\ r.ok
               /\ TransitionsOf(r.afd) = ResolvedOf(data, r.afd)

-----------------------------------------------------------------------------
(* C8: from_jff_format fails, returning no automaton, whenever the from or *)
(* to id of some transition element is the id of no state element, also    *)
(* when every other transition resolves; an unparseable document fails     *)
(* too.                                                                    *)
StateIdsOf(doc) == {doc.states[i].id : i \in 1..Len(doc.states)}

Dangling(doc, i) ==
    \/ doc.transitions[i].from \notin StateIdsOf(doc)
    \/ doc.transitions[i].to \notin StateIdsOf(doc)

C8_UnknownIdFails ==
    call.op = "from_jff_format" =>
        LET doc == call.args[1]
            r == call.ret
        IN  /\ ~doc.parses => ~r.ok /\ r.error = "ParseError"
            /\ (doc.parses /\ \E i \in 1..Len(doc.transitions) : Dangling(doc, i))
                  => ~r.ok /\ r.error = "KeyError"

\* a document whose first transition resolves and whose second does not
C8_Witness ==
    /\ call.op = "from_jff_format"
    /\ Len(call.args[1].transitions) = 2
    /\ ~Dangling(call.args[1], 1)
    /\ Dangling(call.args[1], 2)
    /\ Len(call.ret.afd.transitions) = 1
    /\ ~call.ret.ok

-----------------------------------------------------------------------------
(* C9: when a load fails in either codec (a native key that does not split *)
(* into two parts, an unparseable document, an unknown state id), the      *)
(* automaton the simulator holds is the one it held before the load.       *)
LoadFailed == call.op = "load_afd" /\ message = "error"

C9_LoadStep == LoadFailed' => current_afd' = current_afd

C9_FailedLoadKeepsAutomaton == [][C9_LoadStep]_vars

\* a document with an unknown state id, whose state and first transition
\* were already built when the lookup failed, was refused while the
\* simulator held an automaton of two states with a transition
C9_Witness ==
    /\ LoadFailed
    /\ call.args = <<"jff">>
    /\ call.ret = "KeyError"
    /\ Len(current_afd.states) = 2
    /\ Len(current_afd.transitions) >= 1

-----------------------------------------------------------------------------
(* C11: in every automaton built by add_state and add_transition calls,    *)
(* directly or inside from_afd_format and from_jff_format, alphabet is     *)
(* exactly the set of non-empty symbols that label an entry of             *)
(* transitions; the empty symbol is never a member, and the alphabet field *)
(* of a native record has no influence.                                    *)
LabelsOf(afd) == {afd.transitions[i].k[2] : i \in 1..Len(afd.transitions)}

C11_AlphabetDerived ==
    /\ current_afd.alphabet = LabelsOf(current_afd) \ {EmptyStr}
    /\ EmptyStr \notin current_afd.alphabet

\* the automaton a codec has just returned from a record whose alphabet
\* field lists "b": it has a transition on the empty symbol and one on "a"
C11_Witness ==
    /\ call.op = "from_afd_format"
    /\ call.args[1].alphabet = {<<"b">>}
    /\ LabelsOf(current_afd) = {<<"a">>, EmptyStr}
    /\ current_afd.alphabet = {<<"a">>}

\* direct calls gave an automaton of two states a transition on "a" and one
\* on the empty symbol
C11_WitnessDirect ==
    /\ call.op = "add_transition"
    /\ LabelsOf(current_afd) = {<<"a">>, EmptyStr}
    /\ current_afd.alphabet = {<<"a">>}
    /\ Len(current_afd.states) = 2

-----------------------------------------------------------------------------
(* C12: after any sequence of add_state and add_transition calls,          *)
(* initial_state is None if no add_state call had is_initial true, and     *)
(* otherwise the State created by the most recent such call; it is a       *)
(* member of states, and add_transition and add_state calls without the    *)
(* initial flag never change it.  The i-th State keeps the is_initial      *)
(* argument of the i-th add_state call.                                    *)
InitialCalls(afd) == {i \in 1..Len(afd.states) : afd.states[i].is_initial}

C12_InitialIsLast ==
    /\ InitialCalls(current_afd) = {} => current_afd.initial_state = None
    /\ InitialCalls(current_afd) # {} =>
          /\ current_afd.initial_state \in InitialCalls(current_afd)
          /\ \A i \in InitialCalls(current_afd) : i <= current_afd.initial_state

C12_CallEffect ==
    /\ call'.op = "add_state" /\ call'.args[2] =>
          current_afd'.initial_state = call'.ret
    /\ call'.op = "add_state" /\ ~call'.args[2] =>
          current_afd'.initial_state = current_afd.initial_state
    /\ call'.op = "add_transition" =>
          current_afd'.initial_state = current_afd.initial_state

C12_InitialState == [](C12_InitialIsLast) /\ [][C12_CallEffect]_vars

\* two add_state calls had the initial flag, the second one won, and an
\* add_transition call has left it in place
C12_Witness ==
    /\ call.op = "add_transition"
    /\ InitialCalls(current_afd) = {1, 2}
    /\ current_afd.initial_state = 2

-----------------------------------------------------------------------------
(* C13: for every automaton, with or without an initial state, and every   *)
(* input s, the trace validate_string returns has at most len(s) + 1       *)
(* elements.                                                               *)
C13_TraceBound ==
    Validated => Len(call.ret.steps) <= Len(call.args[1]) + 1

\* the longest failed walk: the last symbol of a two-symbol input was not
\* matched, and the trace has three elements, the error step included
C13_Witness ==
    /\ Validated
    /\ Len(call.args[1]) = 2
    /\ Len(call.ret.steps) = 3
    /\ call.ret.steps[3].state = None
    /\ call.ret.steps[2].state # None

-----------------------------------------------------------------------------
(* C14: in every non-empty trace returned for input s, element k has       *)
(* position k and remaining s[k:]; element 0 has the initial state, and    *)
(* for k >= 1 an element with a state other than None has the state        *)
(* transitions[(state of element k-1, s[k-1])].                            *)
C14_TraceShape ==
    Validated /\ call.ret.steps # <<>> =>
        LET s == call.args[1]
            steps == call.ret.steps
        IN  /\ \A k \in 0..(Len(steps) - 1) :
                  /\ steps[k + 1].position = k
                  /\ steps[k + 1].remaining = Suffix(s, k)
            /\ steps[1].state = current_afd.initial_state
            /\ \A k \in 1..(Len(steps) - 1) :
                  steps[k + 1].state # None =>
                     /\ DictHas(current_afd.transitions,
                                <<steps[k].state, <<s[k]>>>>)
                     /\ steps[k + 1].state =
                           DictGet(current_afd.transitions,
                                   <<steps[k].state, <<s[k]>>>>)

\* a walk over two symbols that moved from the initial state to another
\* state and back
C14_Witness ==
    /\ Validated
    /\ Len(call.ret.steps) = 3
    /\ call.ret.steps[2].state \notin {None, call.ret.steps[1].state}
    /\ call.ret.steps[3].state = call.ret.steps[1].state

-----------------------------------------------------------------------------
(* C15: validate_string is a pure function of the automaton and the input: *)
(* a call leaves states, alphabet, initial_state, final_states and         *)
(* transitions unchanged, and two calls with the same input on the same    *)
(* automaton, with any number of other validate_string calls in between,   *)
(* return the same verdict and the same trace.                             *)
C15_SameResult ==
    /\ earlier.op = "validate_string"
    /\ Validated
    /\ earlier.args = call.args
    => earlier.ret = call.ret

C15_Frame == call'.op = "validate_string" => current_afd' = current_afd

-----------------------------------------------------------------------------
(* C16: transitions on the empty symbol are never taken: validate_string   *)
(* returns on A the verdict and the trace it returns on A without its      *)
(* transitions on the empty symbol.                                        *)
WithoutEmptySymbol(afd) ==
    LET Labelled(e) == e.k[2] # EmptyStr
    IN  [afd EXCEPT !.transitions = SelectSeq(@, Labelled)]

C16_EmptySymbolIgnored ==
    Validated =>
        call.ret = validate_string(WithoutEmptySymbol(current_afd), call.args[1])

\* the initial state has a transition on the empty symbol to a final state
\* and none on "a": the input "a" stops at the error step and the empty
\* input is rejected in the initial state
C16_Witness ==
    /\ Validated
    /\ current_afd.initial_state # None
    /\ \E i \in 1..Len(current_afd.transitions) :
          /\ current_afd.transitions[i].k = <<current_afd.initial_state, EmptyStr>>
          /\ current_afd.transitions[i].v \in Range(current_afd.final_states)
    /\ current_afd.initial_state \notin Range(current_afd.final_states)
    /\ call.args[1] = <<"a">>
    /\ ~call.ret.accepted
    /\ Len(call.ret.steps) = 2

-----------------------------------------------------------------------------
(* C17: from_jff_format of a well-formed document yields the automaton     *)
(* that direct calls build: one add_state per state element in document    *)
(* order, named by the name attribute or by the id when there is none,     *)
(* initial iff it has an initial child and final iff it has a final child; *)
(* then one add_transition per transition element between the states       *)
(* carrying the from and to ids, on the read text, or on the empty symbol  *)
(* when read is absent or has no text.  When two state elements carry the  *)
(* same id, the later one is the state of that id.                         *)
WellFormed(doc) ==
    /\ doc.parses
    /\ \A j \in 1..Len(doc.transitions) :
          /\ doc.transitions[j].from \in StateIdsOf(doc)
          /\ doc.transitions[j].to \in StateIdsOf(doc)

CarrierOf(doc, id) ==
    CHOOSE i \in 1..Len(doc.states) :
        /\ doc.states[i].id = id
        /\ \A j \in (i + 1)..Len(doc.states) : doc.states[j].id # id

RECURSIVE DirectStates(_, _, _)
DirectStates(afd, doc, i) ==
    IF i > Len(doc.states)
    THEN afd
    ELSE DirectStates(
             add_state(afd,
                 IF doc.states[i].name.present
                 THEN doc.states[i].name.text ELSE doc.states[i].id,
                 doc.states[i].initial, doc.states[i].final),
             doc, i + 1)

RECURSIVE DirectTransitions(_, _, _)
DirectTransitions(afd, doc, j) ==
    IF j > Len(doc.transitions)
    THEN afd
    ELSE DirectTransitions(
             add_transition(afd,
                 CarrierOf(doc, doc.transitions[j].from),
                 IF doc.transitions[j].read.present
                 THEN doc.transitions[j].read.text ELSE EmptyStr,
                 CarrierOf(doc, doc.transitions[j].to)),
             doc, j + 1)

C17_JffAsDirectCalls ==
    call.op = "from_jff_format" /\ WellFormed(call.args[1]) =>
        /\ call.ret.ok
        /\ call.ret.afd =
              DirectTransitions(DirectStates(AFD, call.args[1], 1),
                                call.args[1], 1)

\* a document of two states, the first named by its id and initial, the
\* second named "q" and final, with a transition on "a" and one whose read
\* element has no text
C17_Witness ==
    /\ call.op = "from_jff_format"
    /\ WellFormed(call.args[1])
    /\ Len(call.args[1].states) = 2
    /\ call.args[1].states[1] =
          [id |-> <<"0">>, name |-> NoAttr, initial |-> TRUE, final |-> FALSE]
    /\ call.args[1].states[2] =
          [id |-> <<"1">>, name |-> Attr(<<"q">>), initial |-> FALSE,
           final |-> TRUE]
    /\ call.args[1].transitions =
          <<[from |-> <<"0">>, to |-> <<"0">>, read |-> Attr(<<"a">>)],
            [from |-> <<"0">>, to |-> <<"1">>, read |-> Attr(EmptyStr)]>>
    /\ call.ret.ok
    /\ call.ret.afd.alphabet = {<<"a">>}
    /\ Len(call.ret.afd.transitions) = 2

-----------------------------------------------------------------------------
(* C18: to_afd_format returns a record whose states field lists the state  *)
(* names in insertion order, whose initial_state is the initial state's    *)
(* name or the empty string when there is none, whose final_states lists   *)
(* the final state names in the order they were marked final, and whose    *)
(* transitions has the key from-name + "," + symbol for every entry of     *)
(* transitions and no other key; it does not modify the automaton.         *)
(* As stated, each entry's key maps to that entry's to-name (C18_Original);*)
(* in fact the key maps to the to-name of the last entry, in insertion     *)
(* order, that has this key (C18_RecordOf).                                *)
EntryKey(afd, i) ==
    afd.states[afd.transitions[i].k[1]].name \o <<Comma>>
        \o afd.transitions[i].k[2]

EntryToName(afd, i) == afd.states[afd.transitions[i].v].name

LastWithKey(afd, i) ==
    CHOOSE j \in 1..Len(afd.transitions) :
        /\ EntryKey(afd, j) = EntryKey(afd, i)
        /\ \A l \in (j + 1)..Len(afd.transitions) :
              EntryKey(afd, l) # EntryKey(afd, i)

RecordFields(afd, data) ==
    /\ data.states = [i \in 1..Len(afd.states) |-> afd.states[i].name]
    /\ data.initial_state =
          IF afd.initial_state = None THEN EmptyStr
          ELSE afd.states[afd.initial_state].name
    /\ data.final_states =
          [i \in 1..Len(afd.final_states) |-> afd.states[afd.final_states[i]].name]
    /\ {data.transitions[i].k : i \in 1..Len(data.transitions)} =
          {EntryKey(afd, i) : i \in 1..Len(afd.transitions)}

Serialized == call.op = "to_afd_format"

C18_Original ==
    Serialized =>
        /\ RecordFields(current_afd, call.ret)
        /\ \A i \in 1..Len(current_afd.transitions) :
              DictGet(call.ret.transitions, EntryKey(current_afd, i)) =
                 EntryToName(current_afd, i)

C18_LastEntryWins ==
    Serialized =>
        /\ RecordFields(current_afd, call.ret)
        /\ \A i \in 1..Len(current_afd.transitions) :
              DictGet(call.ret.transitions, EntryKey(current_afd, i)) =
                 EntryToName(current_afd, LastWithKey(current_afd, i))

C18_Frame == Serialized' => current_afd' = current_afd

C18_RecordOf == [](C18_LastEntryWins) /\ [][C18_Frame]_vars

\* an automaton with an initial and a final state whose two entries give
\* the same key with different to-names: the record has the one key, with
\* the to-name of the second entry
C18_Witness ==
    /\ Serialized
    /\ current_afd.initial_state # None
    /\ current_afd.final_states # <<>>
    /\ Len(current_afd.transitions) = 2
    /\ EntryKey(current_afd, 1) = EntryKey(current_afd, 2)
    /\ EntryToName(current_afd, 1) # EntryToName(current_afd, 2)
    /\ Len(call.ret.transitions) = 1
    /\ call.ret.transitions[1].v = EntryToName(current_afd, 2)

-----------------------------------------------------------------------------
(* C19: get_state_by_name(name) returns the earliest-inserted state whose  *)
(* name is name, also when several states share that name, and None        *)
(* exactly when no state has that name; it does not modify the automaton.  *)
Looked == call.op = "get_state_by_name"

C19_Earliest ==
    Looked =>
        LET name == call.args[1]
            Named == {i \in 1..Len(current_afd.states) :
                         current_afd.states[i].name = name}
        IN  /\ call.ret = None <=> Named = {}
            /\ call.ret # None =>
                  /\ call.ret \in Named
                  /\ \A i \in Named : call.ret <= i

C19_Frame == Looked' => current_afd' = current_afd

C19_FirstMatch == [](C19_Earliest) /\ [][C19_Frame]_vars

\* two states share the name looked up and the first of them is returned
C19_Witness ==
    /\ Looked
    /\ Len(current_afd.states) = 2
    /\ current_afd.states[1].name = call.args[1]
    /\ current_afd.states[2].name = call.args[1]
    /\ call.ret = 1

\* no state has the name looked up, in an automaton that has states
C19_WitnessNone ==
    /\ Looked
    /\ Len(current_afd.states) = 2
    /\ call.ret = None

-----------------------------------------------------------------------------
(* C20: after any sequence of add_state and add_transition calls,          *)
(* final_states holds exactly the states that were added with is_final     *)
(* true, each once and in the order they were added; every member is a     *)
(* member of states, and a state's is_final flag is true iff the state is  *)
(* in final_states.  The i-th State keeps the is_final argument of the     *)
(* i-th add_state call.                                                    *)
C20_FinalsInOrder ==
    LET finals == current_afd.final_states
    IN  /\ Range(finals) \subseteq 1..Len(current_afd.states)
        /\ \A i \in 1..Len(current_afd.states) :
              current_afd.states[i].is_final <=> i \in Range(finals)
        /\ \A i, j \in 1..Len(finals) : i < j => finals[i] < finals[j]

C20_CallEffect ==
    /\ call'.op = "add_state" /\ call'.args[3] =>
          current_afd'.final_states =
             Append(current_afd.final_states, call'.ret)
    /\ call'.op = "add_state" /\ ~call'.args[3] =>
          current_afd'.final_states = current_afd.final_states
    /\ call'.op = "add_transition" =>
          current_afd'.final_states = current_afd.final_states

C20_FinalStates == [](C20_FinalsInOrder) /\ [][C20_CallEffect]_vars

\* two states were added as final and final_states lists them in that
\* order, also after an add_transition call
C20_Witness ==
    /\ call.op = "add_transition"
    /\ current_afd.final_states = <<1, 2>>
    /\ current_afd.states[1].is_final
    /\ current_afd.states[2].is_final

-----------------------------------------------------------------------------
(* C21: in every automaton reachable through the simulator's operations    *)
(* (add state, add transition, load, reset), every key (state, symbol) of  *)
(* transitions has a symbol that is a single character or the empty        *)
(* string.                                                                 *)
C21_SingleCharSymbols ==
    \A i \in 1..Len(current_afd.transitions) :
        Len(current_afd.transitions[i].k[2]) <= 1

-----------------------------------------------------------------------------
(* C22: the add-transition handler rejects a request whose (origin state,  *)
(* symbol) pair already has a transition: the existing target is kept and  *)
(* transitions, alphabet and states are unchanged, so no target is ever    *)
(* overwritten through the handler.  A request the handler accepts adds an *)
(* entry under a key that had none.                                        *)
C22_HandlerStep ==
    call'.op = "add_transition_handler" =>
        LET old == current_afd.transitions
            new == current_afd'.transitions
        IN  /\ Len(new) >= Len(old)
            /\ \A i \in 1..Len(old) : new[i] = old[i]
            /\ message' = "error_transition_exists" => current_afd' = current_afd
            /\ message' # "none" => current_afd' = current_afd
            /\ message' = "none" =>
                  /\ Len(new) = Len(old) + 1
                  /\ ~DictHas(old, new[Len(new)].k)

C22_NoOverwrite == [][C22_HandlerStep]_vars

\* a request from an existing state on a symbol it already has a transition
\* on was rejected
C22_Witness ==
    /\ call.op = "add_transition_handler"
    /\ message = "error_transition_exists"
    /\ \E i \in 1..Len(current_afd.transitions) :
          current_afd.transitions[i].k[1] # None
    /\ Len(current_afd.states) = 2

-----------------------------------------------------------------------------
(* C23: the add-state handler rejects a name that is empty after trimming  *)
(* or that is the name of an existing state, leaving the automaton         *)
(* unchanged; hence, starting from an empty automaton, after any sequence  *)
(* of add-state, add-transition and reset handler calls all state names    *)
(* are non-empty and pairwise distinct.                                    *)
C23_NamesDistinct ==
    /\ \A i \in 1..Len(current_afd.states) :
          current_afd.states[i].name # EmptyStr
    /\ \A i, j \in 1..Len(current_afd.states) :
          current_afd.states[i].name = current_afd.states[j].name => i = j

C23_HandlerStep ==
    call'.op = "add_state_handler" =>
        /\ message' \in {"error_empty_name", "error_state_exists"} =>
              current_afd' = current_afd
        /\ message' = "none" =>
              /\ Len(current_afd'.states) = Len(current_afd.states) + 1
              /\ get_state_by_name(current_afd,
                     current_afd'.states[Len(current_afd'.states)].name) = None

C23_AddStateRejects == [](C23_NamesDistinct) /\ [][C23_HandlerStep]_vars

\* the name of an existing state was rejected in an automaton of two states
C23_Witness ==
    /\ call.op = "add_state_handler"
    /\ message = "error_state_exists"
    /\ Len(current_afd.states) = 2

\* a blank name was rejected
C23_WitnessEmpty ==
    /\ call.op = "add_state_handler"
    /\ message = "error_empty_name"
    /\ Len(current_afd.states) = 1


-----------------------------------------------------------------------------
\* C24: the cursor is never negative, is at most len(simulation_steps) - 1
\* when simulation_steps is non-empty and is 0 when it is empty; next_step
\* at the last step and prev_step at step 0 leave the cursor where it was.
C24_CursorInBounds ==
    /\ current_step >= 0
    /\ simulation_steps # <<>> => current_step <= Len(simulation_steps) - 1
    /\ simulation_steps = <<>> => current_step = 0

C24_BoundaryStep ==
    /\ (call'.op = "next_step" /\ simulation_steps # <<>>
           /\ current_step = Len(simulation_steps) - 1)
          => current_step' = current_step
    /\ (call'.op = "prev_step" /\ current_step = 0)
          => current_step' = current_step

C24_CursorBounds == [](C24_CursorInBounds) /\ [][C24_BoundaryStep]_vars

\* next_step was pressed at the last of three steps, after a load that kept
\* the steps, and the cursor stayed
C24_Witness ==
    /\ call.op = "next_step"
    /\ Len(simulation_steps) = 3
    /\ call.args = <<2>>
    /\ current_step = 2
    /\ steps_afd = "replaced"

\* prev_step was pressed at step 0 of a stored walk
C24_WitnessPrev ==
    /\ call.op = "prev_step"
    /\ simulation_steps # <<>>
    /\ call.args = <<0>>
    /\ current_step = 0

\* C25: next_step, prev_step and reset_simulation change only the cursor,
\* simulation_steps and the automaton are what they were; a next_step that
\* moved the cursor followed by prev_step puts the cursor back.
C25_NavigationStep ==
    /\ call'.op \in {"next_step", "prev_step", "reset_simulation"}
          => /\ simulation_steps' = simulation_steps
             /\ current_afd' = current_afd
             /\ steps_afd' = steps_afd
    /\ (call.op = "next_step" /\ current_step # call.args[1]
           /\ call'.op = "prev_step")
          => current_step' = call.args[1]

C25_NavigationOnlyMovesCursor == [][C25_NavigationStep]_vars

\* prev_step was pressed with the cursor at the last of three steps, where
\* only next_step can have put it, and the cursor is at 1 again
C25_Witness ==
    /\ call.op = "prev_step"
    /\ call.args = <<2>>
    /\ current_step = 1
    /\ Len(simulation_steps) = 3

\* C26: every non-None state in simulation_steps is one of the states of
\* the automaton current_afd is now.
C26_StepsOfCurrentAutomaton ==
    \A i \in 1..Len(simulation_steps) :
        simulation_steps[i].state # None
            => /\ steps_afd = "current"
               /\ simulation_steps[i].state \in 1..Len(current_afd.states)

\* C27: at most one state has its is_initial flag true, and a state's flag
\* is true iff the state is the one initial_state refers to.
C27_OneInitialFlag ==
    /\ Cardinality({i \in 1..Len(current_afd.states) :
                       current_afd.states[i].is_initial}) <= 1
    /\ \A i \in 1..Len(current_afd.states) :
          current_afd.states[i].is_initial <=> current_afd.initial_state = i

\* C28: a step of add_state or add_transition only grows the automaton:
\* the states before are a prefix of the states after, and every alphabet
\* symbol, transition key and final state is kept; add_state leaves
\* transitions and alphabet as they were, add_transition leaves states,
\* initial_state and final_states as they were.
C28_Keys(afd) == {afd.transitions[i].k : i \in 1..Len(afd.transitions)}

C28_GrowStep ==
    /\ Len(current_afd.states) <= Len(current_afd'.states)
    /\ SubSeq(current_afd'.states, 1, Len(current_afd.states))
          = current_afd.states
    /\ current_afd.alphabet \subseteq current_afd'.alphabet
    /\ C28_Keys(current_afd) \subseteq C28_Keys(current_afd')
    /\ Range(current_afd.final_states) \subseteq Range(current_afd'.final_states)
    /\ call'.op = "add_state"
          => /\ current_afd'.transitions = current_afd.transitions
             /\ current_afd'.alphabet = current_afd.alphabet
    /\ call'.op = "add_transition"
          => /\ current_afd'.states = current_afd.states
             /\ current_afd'.initial_state = current_afd.initial_state
             /\ current_afd'.final_states = current_afd.final_states

C28_OnlyGrows == [][C28_GrowStep]_vars

\* add_state was called with is_final on an automaton that already had a
\* final state and a transition
C28_Witness ==
    /\ call.op = "add_state"
    /\ call.args[3]
    /\ Len(current_afd.final_states) = 2
    /\ current_afd.transitions # <<>>

\* add_transition was called on an automaton with a final state and made
\* its second transition
C28_WitnessTransition ==
    /\ call.op = "add_transition"
    /\ current_afd.final_states # <<>>
    /\ Len(current_afd.transitions) = 2


=============================================================================
